---------------------------- MODULE Spec2Model ----------------------------
(***************************************************************************)
(* QuickShelf (src/quickshelf.py): a desktop organizer.  scan_desktop      *)
(* lists the regular files of the watched directory and categorizes them   *)
(* (extension table for at most 3 files, TF-IDF + KMeans clustering above),*)
(* organize_files moves every file into its category folder and logs the   *)
(* move in an append-only CSV, get_recent_files reads the log back, and    *)
(* load_preferences / save_preferences keep a JSON blob.                   *)
(*                                                                         *)
(* A file name is a sequence of one-character strings, so that             *)
(* os.path.splitext and str.lower are computed, not assumed.               *)
(***************************************************************************)
EXTENDS Integers, Sequences, FiniteSets, TLC

VARIABLES
    constructed,    \* QuickShelf() has been constructed (main, line 162)
    config_dir,     \* ~/.quickshelf exists
    prefs_file,     \* the blob ~/.quickshelf/preferences.json holds
    preferences,    \* self.preferences
    pre_load,       \* the blob and self.preferences as they were before the pending load
    desktop,        \* the regular files directly in the watched directory
    folders,        \* category folder name -> the files stored in it
    history_file,   \* ~/.quickshelf/file_history.csv: whether it exists, and its lines
    now,            \* datetime.now()
    ret,            \* the last operation: its name, return value and raised error
    arrived,        \* number of files that ever appeared in the watched directory
    moved           \* number of shutil.move calls that ever completed

vars == <<constructed, config_dir, prefs_file, preferences, pre_load, desktop,
          folders, history_file, now, ret, arrived, moved>>

-----------------------------------------------------------------------------
(* Bounds of the model.                                                    *)

\* files that may ever arrive in the watched directory
MaxArrivals == 3
\* latest instant of the clock
MaxTime == 1
\* largest window asked of get_recent_files
MaxDays == 1

-----------------------------------------------------------------------------
(* File names.                                                             *)

invoice_pdf == <<"i","n","v","o","i","c","e",".","p","d","f">>
notes_txt   == <<"n","o","t","e","s",".","t","x","t">>
photo_png   == <<"p","h","o","t","o",".","p","n","g">>
song_mp3    == <<"s","o","n","g",".","m","p","3">>
PIC_JPG     == <<"P","I","C",".","J","P","G">>
a_tar_gz    == <<"a",".","t","a","r",".","g","z">>
dot_zip     == <<".","z","i","p">>
Others_file == <<"O","t","h","e","r","s">>
data_xyz    == <<"d","a","t","a",".","x","y","z">>

\* the names the pipeline specification draws arriving files from
Names == {invoice_pdf, notes_txt, photo_png, Others_file}

\* the names the scan specification draws directory listings from
ScanNames == {invoice_pdf, notes_txt, photo_png, song_mp3, PIC_JPG,
              a_tar_gz, dot_zip, Others_file, data_xyz}

RECURSIVE Join(_)
\* the str of a name: its characters concatenated
Join(chars) ==
    IF chars = <<>> THEN "" ELSE Head(chars) \o Join(Tail(chars))

\* the str of every name (Join, evaluated once per name)
NameText == [f \in ScanNames |-> Join(f)]

UpperCase == <<"A","B","C","D","E","F","G","H","I","J","K","L","M",
               "N","O","P","Q","R","S","T","U","V","W","X","Y","Z">>
LowerCase == <<"a","b","c","d","e","f","g","h","i","j","k","l","m",
               "n","o","p","q","r","s","t","u","v","w","x","y","z">>

\* str.lower() of one character
LowerChar(c) ==
    IF \E i \in 1..Len(UpperCase) : UpperCase[i] = c
    THEN LowerCase[CHOOSE i \in 1..Len(UpperCase) : UpperCase[i] = c]
    ELSE c

\* the extension looked up as it is spelt, without .lower()
lower_missing(chars) == chars

\* str.lower()
lower(chars) == [i \in 1..Len(chars) |-> LowerChar(chars[i])]

\* os.path.splitext(file)[1] of a name without separators: the suffix from
\* the last dot, unless only dots precede it
splitext_ext(file) ==
    LET dots == {i \in 1..Len(file) : file[i] = "."}
    IN  IF dots = {} THEN <<>>
        ELSE LET dotIndex == CHOOSE i \in dots : \A j \in dots : j <= i
             IN  IF \E j \in 1..(dotIndex - 1) : file[j] # "."
                 THEN SubSeq(file, dotIndex, Len(file))
                 ELSE <<>>

\* self.default_categories, in insertion order
default_categories == <<
    [cat |-> "Documents",     exts |-> {".pdf", ".doc", ".docx", ".txt", ".rtf"}],
    [cat |-> "Images",        exts |-> {".jpg", ".jpeg", ".png", ".gif", ".heic"}],
    [cat |-> "Videos",        exts |-> {".mp4", ".mov", ".avi", ".mkv"}],
    [cat |-> "Music",         exts |-> {".mp3", ".m4a", ".wav", ".flac"}],
    [cat |-> "Archives",      exts |-> {".zip", ".rar", ".7z", ".tar", ".gz"}],
    [cat |-> "Applications",  exts |-> {".app", ".dmg", ".pkg"}],
    [cat |-> "Spreadsheets",  exts |-> {".xls", ".xlsx", ".csv"}],
    [cat |-> "Presentations", exts |-> {".ppt", ".pptx", ".key"}],
    [cat |-> "Code",          exts |-> {".py", ".js", ".html", ".css", ".json"}] >>

-----------------------------------------------------------------------------
(* scan_desktop.  A categories dict is the sequence of its items, in       *)
(* insertion order: [cat |-> name, files |-> list].                        *)

\* the threshold of line 62: clustering needs more than this many files
ClusterThreshold == 3
\* the cap on n_clusters of line 65
MaxClusters == 5

\* categories[cat] = [file]: a key already present loses its list
DictAppendReplacing(categories, cat, file) ==
    IF \E i \in 1..Len(categories) : categories[i].cat = cat
    THEN [i \in 1..Len(categories) |->
            IF categories[i].cat = cat
            THEN [categories[i] EXCEPT !.files = <<file>>]
            ELSE categories[i]]
    ELSE Append(categories, [cat |-> cat, files |-> <<file>>])

\* categories[cat].append(file), creating the list when the key is new
DictAppend(categories, cat, file) ==
    IF \E i \in 1..Len(categories) : categories[i].cat = cat
    THEN [i \in 1..Len(categories) |->
            IF categories[i].cat = cat
            THEN [categories[i] EXCEPT !.files = Append(@, file)]
            ELSE categories[i]]
    ELSE Append(categories, [cat |-> cat, files |-> <<file>>])

\* the ext a category is looked up with (line 80)
FileExt(file) == Join(lower(splitext_ext(file)))

\* lines 81-92: the first category of the table holding ext, else Others
ExtensionCategory(file) ==
    LET ext == FileExt(file)
        hits == {i \in 1..Len(default_categories) : ext \in default_categories[i].exts}
    IN  IF hits = {} THEN "Others"
        ELSE default_categories[CHOOSE i \in hits : \A j \in hits : i <= j].cat

\* the category of every name (ExtensionCategory, evaluated once per name)
CategoryOf == [f \in ScanNames |-> ExtensionCategory(f)]

RECURSIVE ExtensionScan(_, _)
\* lines 78-92: the loop over files, categories being the accumulator
ExtensionScan(files, categories) ==
    IF files = <<>> THEN categories
    ELSE ExtensionScan(Tail(files),
                       DictAppend(categories, CategoryOf[Head(files)], Head(files)))

\* n_clusters of line 65
NClusters(files) == IF Len(files) < MaxClusters THEN Len(files) ELSE MaxClusters

\* line 72
ClusterName(label) == "Category " \o ToString(label + 1)

RECURSIVE ClusterScan(_, _, _, _)
\* lines 70-75: the loop over enumerate(files); clusters are kmeans.labels_
ClusterScan(files, clusters, i, categories) ==
    IF i > Len(files) THEN categories
    ELSE ClusterScan(files, clusters, i + 1,
                     DictAppend(categories, ClusterName(clusters[i]), files[i]))

\* what TfidfVectorizer + KMeans (lines 63-67) may produce for the listing
\* when they are called: a label below n_clusters for every file, or an
\* exception (ok = FALSE)
KMeansOutcomes(files) ==
    IF Len(files) > ClusterThreshold
    THEN {[ok |-> TRUE, labels |-> l] :
            l \in [1..Len(files) -> 0..(NClusters(files) - 1)]}
         \cup {[ok |-> FALSE, labels |-> <<>>]}
    ELSE {[ok |-> TRUE, labels |-> <<>>]}

\* the orders os.listdir may return the regular files in
ListDir(dir) ==
    {s \in [1..Cardinality(dir) -> dir] : \A i, j \in DOMAIN s : i # j => s[i] # s[j]}

ClusterFailed == [kind |-> "ClusterFailed", file |-> <<>>, category |-> ""]
NoError       == [kind |-> "none", file |-> <<>>, category |-> ""]

\* scan_desktop with the Others list created before the loop over files
scan_desktop_seeded(files, kmeans) ==
    IF Len(files) > ClusterThreshold
    THEN IF ~kmeans.ok
         THEN [categories |-> <<>>, raised |-> ClusterFailed]
         ELSE [categories |-> ClusterScan(files, kmeans.labels, 1, <<>>),
               raised |-> NoError]
    ELSE [categories |-> ExtensionScan(files, <<[cat |-> "Others", files |-> <<>>]>>),
          raised |-> NoError]

\* scan_desktop on a listing: [categories, raised]
scan_desktop(files, kmeans) ==
    IF Len(files) > ClusterThreshold
    THEN IF ~kmeans.ok
         THEN [categories |-> <<>>, raised |-> ClusterFailed]
         ELSE [categories |-> ClusterScan(files, kmeans.labels, 1, <<>>),
               raised |-> NoError]
    ELSE [categories |-> ExtensionScan(files, <<>>), raised |-> NoError]

-----------------------------------------------------------------------------
(* The preference store.  A blob is what preferences.json holds: nothing   *)
(* (missing), text json.load rejects (malformed), or a JSON text, which    *)
(* json.load parses to a value.  json.dump writes one text per value (the  *)
(* canonical one); a text written by hand may parse to the same value and  *)
(* differ from it (whitespace, key order).                                 *)

PrefKeys == {"auto_organize", "show_notifications"}

\* the dicts self.preferences ranges over
PrefValues == UNION {[K -> BOOLEAN] : K \in SUBSET PrefKeys}

EmptyPrefs == <<>>

MissingBlob   == [kind |-> "missing",   value |-> EmptyPrefs, canonical |-> FALSE]
MalformedBlob == [kind |-> "malformed", value |-> EmptyPrefs, canonical |-> FALSE]

Blobs ==
    {MissingBlob, MalformedBlob}
    \cup {[kind |-> "json", value |-> v, canonical |-> c] :
            v \in PrefValues, c \in BOOLEAN}

\* json.dump(value, f) on a file opened with 'w' (lines 52-54)
json_dump(value) == [kind |-> "json", value |-> value, canonical |-> TRUE]

\* json.load(f) (line 45): the parsed value, or an exception (ok = FALSE)
json_load(blob) ==
    IF blob.kind = "json" THEN [ok |-> TRUE, value |-> blob.value]
    ELSE [ok |-> FALSE, value |-> EmptyPrefs]

\* load_preferences that parses the blob and never assigns self.preferences
load_preferences_unassigned(blob, prefs) == prefs

\* lines 40-47: self.preferences after load_preferences
load_preferences(blob, prefs) ==
    IF blob.kind # "missing"
    THEN IF json_load(blob).ok THEN json_load(blob).value ELSE EmptyPrefs
    ELSE prefs

\* lines 49-54: the blob after save_preferences
save_preferences(prefs) == json_dump(prefs)

NoSnapshot == [taken |-> FALSE, file |-> MissingBlob, prefs |-> EmptyPrefs]
Snapshot(blob, prefs) == [taken |-> TRUE, file |-> blob, prefs |-> prefs]

-----------------------------------------------------------------------------
(* The history log.  A line is its comma-separated fields; the timestamp   *)
(* field is the ISO text of the instant.                                   *)

NoHistory == [exists |-> FALSE, lines |-> <<>>]

\* the header of line 117
HistoryHeader == <<"timestamp", "filename", "category", "action">>

\* datetime.isoformat() of an instant (line 120)
isoformat(t) == "T" \o ToString(t)

\* pd.to_datetime of a timestamp field (line 127)
to_datetime(text) == CHOOSE t \in 0..MaxTime : isoformat(t) = text

\* log_action that opens the file with 'w' for the record too: the header and
\* the new record replace what was stored
log_action_truncating(history, filename, category, t, fails) ==
    LET raises == fails \in {"w", "a"}
    IN  [history |->
            IF raises THEN history
            ELSE [exists |-> TRUE,
                  lines |-> <<HistoryHeader,
                              <<isoformat(t), NameText[filename], category, "moved">> >>],
         raised |-> raises]

\* log_action (lines 113-121).  fails names the open() call that raises, if
\* one does: "w" the creation of the file, "a" the append.
log_action(history, filename, category, t, fails) ==
    LET created ==
            IF ~history.exists /\ fails # "w"
            THEN [exists |-> TRUE, lines |-> <<HistoryHeader>>]
            ELSE history
        raises == (~history.exists /\ fails = "w") \/ fails = "a"
    IN  [history |->
            IF raises THEN created
            ELSE [created EXCEPT !.lines =
                    Append(@, <<isoformat(t), NameText[filename], category, "moved">>)],
         raised |-> raises]

\* pd.read_csv (lines 126, 135): the rows after the header line, each a dict
\* keyed by the header's fields
read_csv(history) ==
    LET header == history.lines[1]
        key(row, name) == row[CHOOSE i \in 1..Len(header) : header[i] = name]
    IN  [i \in 1..(Len(history.lines) - 1) |->
            [timestamp |-> key(history.lines[i + 1], "timestamp"),
             filename  |-> key(history.lines[i + 1], "filename"),
             category  |-> key(history.lines[i + 1], "category"),
             action    |-> key(history.lines[i + 1], "action")]]

\* get_recent_files comparing with >=
get_recent_files_inclusive(history, t, days) ==
    IF history.exists
    THEN SelectSeq(read_csv(history),
                   LAMBDA r : to_datetime(r.timestamp) >= t - days)
    ELSE <<>>

\* get_recent_files (lines 123-130)
get_recent_files(history, t, days) ==
    IF history.exists
    THEN SelectSeq(read_csv(history),
                   LAMBDA r : to_datetime(r.timestamp) > t - days)
    ELSE <<>>

\* create_dashboard (lines 132-155): the series the figure plots, or no figure
create_dashboard(history) ==
    IF history.exists
    THEN LET df == read_csv(history)
             cats == {df[i].category : i \in DOMAIN df}
             dates == {df[i].timestamp : i \in DOMAIN df}
         IN  [fig |-> TRUE,
              cat_counts |-> [c \in cats |->
                  Cardinality({i \in DOMAIN df : df[i].category = c})],
              time_series |-> [d \in dates |->
                  Cardinality({i \in DOMAIN df : df[i].timestamp = d})]]
    ELSE [fig |-> FALSE, cat_counts |-> <<>>, time_series |-> <<>>]

-----------------------------------------------------------------------------
(* organize_files.  st is the state the pass works on: the watched         *)
(* directory, the category folders, the log, the error raised so far, the  *)
(* number of shutil.move calls attempted and of those completed.  fault    *)
(* names the call the environment makes fail (disk, permissions):          *)
(* kind "move" the at-th shutil.move, "w" / "a" the creating / appending   *)
(* open() of the at-th log_action, "none" no call.                         *)

MoveFailed(file, category) == [kind |-> "MoveFailed", file |-> file, category |-> category]
LogFailed(file, category)  == [kind |-> "LogFailed", file |-> file, category |-> category]

Faults(n) ==
    {[kind |-> "none", at |-> 0]}
    \cup {[kind |-> k, at |-> i] : k \in {"move", "w", "a"}, i \in 1..n}

\* os.path.exists(cat_folder) (line 101): a folder or a regular file of that name
path_exists(st, category) ==
    category \in DOMAIN st.folders \/ \E f \in st.desktop : NameText[f] = category

\* lines 100-102
ensure_folder(st, category) ==
    IF path_exists(st, category) THEN st
    ELSE [st EXCEPT !.folders =
            [c \in DOMAIN st.folders \cup {category} |->
                IF c = category THEN {} ELSE st.folders[c]]]

\* shutil.move(src, dst) (line 108).  src and dst are on one file system, so
\* the move is an os.rename: it raises, changing nothing, when the
\* environment makes it fail and when cat_folder is a regular file;
\* otherwise it puts the file at dst, replacing a file already there.
shutil_move(st, file, category, fault) ==
    IF (fault.kind = "move" /\ fault.at = st.attempts + 1)
       \/ category \notin DOMAIN st.folders
    THEN [st EXCEPT !.attempts = @ + 1, !.raised = MoveFailed(file, category)]
    ELSE [st EXCEPT !.attempts = @ + 1,
                    !.moved = @ + 1,
                    !.desktop = @ \ {file},
                    !.folders[category] = @ \cup {file}]

\* line 111, with the raise of a failed log write
log_move(st, file, category, t, fault) ==
    LET fails == IF fault.kind \in {"w", "a"} /\ fault.at = st.attempts
                 THEN fault.kind ELSE "none"
        logged == log_action(st.history, file, category, t, fails)
    IN  [st EXCEPT !.history = logged.history,
                   !.raised = IF logged.raised THEN LogFailed(file, category) ELSE @]

RECURSIVE move_files_continue(_, _, _, _, _)
\* the loop over the files of one category that remembers the first error
\* and goes on with the next file
move_files_continue(st, category, files, t, fault) ==
    IF files = <<>> THEN st
    ELSE LET tried == shutil_move([st EXCEPT !.raised = NoError],
                                  Head(files), category, fault)
             done  == IF tried.raised # NoError THEN tried
                      ELSE log_move(tried, Head(files), category, t, fault)
             kept  == IF st.raised # NoError
                      THEN [done EXCEPT !.raised = st.raised] ELSE done
         IN  move_files_continue(kept, category, Tail(files), t, fault)

RECURSIVE move_files(_, _, _, _, _)
\* lines 108-111 for one file, after being the state shutil.move left: an
\* exception leaves the loop, otherwise the move is logged and the loop goes on
move_next(after, category, files, t, fault) ==
    IF after.raised # NoError THEN after
    ELSE move_files(log_move(after, Head(files), category, t, fault),
                    category, Tail(files), t, fault)

\* lines 105-111: the loop over the files of one category
move_files(st, category, files, t, fault) ==
    IF files = <<>> \/ st.raised # NoError THEN st
    ELSE move_next(shutil_move(st, Head(files), category, fault),
                   category, files, t, fault)

RECURSIVE organize_files(_, _, _, _)
\* lines 98-111: the loop over categories.items(); an exception leaves it
organize_files(st, categories, t, fault) ==
    IF categories = <<>> \/ st.raised # NoError THEN st
    ELSE organize_files(
            move_files(ensure_folder(st, Head(categories).cat),
                       Head(categories).cat, Head(categories).files, t, fault),
            Tail(categories), t, fault)

-----------------------------------------------------------------------------
(* The operations.                                                         *)

Idle == [op |-> "idle", arg |-> 0, value |-> <<>>, raised |-> NoError]
Returned(op, arg, value, raised) ==
    [op |-> op, arg |-> arg, value |-> value, raised |-> raised]

\* the process starts on a fresh account: nothing on the desktop, no log
Init ==
    /\ constructed = FALSE
    /\ config_dir = FALSE
    /\ prefs_file = MissingBlob
    /\ preferences = EmptyPrefs
    /\ pre_load = NoSnapshot
    /\ desktop = {}
    /\ folders = <<>>
    /\ history_file = NoHistory
    /\ now = 0
    /\ ret = Idle
    /\ arrived = 0
    /\ moved = 0

\* QuickShelf.__init__ (lines 15-33)
QuickShelfInit ==
    /\ ~constructed
    /\ constructed' = TRUE
    /\ config_dir' = TRUE
    /\ preferences' = load_preferences(prefs_file, EmptyPrefs)
    /\ pre_load' = Snapshot(prefs_file, EmptyPrefs)
    /\ ret' = Returned("init", 0, <<>>, NoError)
    /\ UNCHANGED <<prefs_file, desktop, folders, history_file, now, arrived, moved>>

\* load_preferences (lines 35-47)
LoadPreferences ==
    /\ constructed
    /\ config_dir' = TRUE
    /\ preferences' = load_preferences(prefs_file, preferences)
    /\ pre_load' = Snapshot(prefs_file, preferences)
    /\ ret' = Returned("load", 0, <<>>, NoError)
    /\ UNCHANGED <<constructed, prefs_file, desktop, folders, history_file, now,
                   arrived, moved>>

\* save_preferences (lines 49-54)
SavePreferences ==
    /\ constructed
    /\ prefs_file' = save_preferences(preferences)
    /\ pre_load' = IF ret.op \in {"init", "load"} THEN pre_load ELSE NoSnapshot
    /\ ret' = Returned("save", 0, <<>>, NoError)
    /\ UNCHANGED <<constructed, config_dir, preferences, desktop, folders,
                   history_file, now, arrived, moved>>

\* the Save button of the settings window (lines 242-245)
SettingsSave ==
    /\ constructed
    /\ \E auto \in BOOLEAN, notify \in BOOLEAN :
        LET prefs == [k \in DOMAIN preferences \cup PrefKeys |->
                        IF k = "auto_organize" THEN auto
                        ELSE IF k = "show_notifications" THEN notify
                        ELSE preferences[k]]
        IN  /\ preferences' = prefs
            /\ prefs_file' = save_preferences(prefs)
    /\ pre_load' = NoSnapshot
    /\ ret' = Returned("settings", 0, <<>>, NoError)
    /\ UNCHANGED <<constructed, config_dir, desktop, folders, history_file, now,
                   arrived, moved>>

\* a file appears in the watched directory (the user drops it there).  The
\* pipeline keeps the directory within the extension-mode threshold: the
\* plans clustering produces are explored by ScanSpec.
Arrive ==
    /\ arrived < MaxArrivals
    /\ \E f \in Names :
        /\ f \notin desktop
        /\ Cardinality(desktop) < ClusterThreshold
        /\ NameText[f] \notin DOMAIN folders
        /\ desktop' = desktop \cup {f}
    /\ arrived' = arrived + 1
    /\ pre_load' = NoSnapshot
    /\ ret' = Idle
    /\ UNCHANGED <<constructed, config_dir, prefs_file, preferences, folders,
                   history_file, now, moved>>

\* the clock advances
Tick ==
    /\ now < MaxTime
    /\ now' = now + 1
    /\ pre_load' = NoSnapshot
    /\ ret' = Idle
    /\ UNCHANGED <<constructed, config_dir, prefs_file, preferences, desktop,
                   folders, history_file, arrived, moved>>

\* the Scan Desktop button (lines 184-187)
ScanDesktop ==
    /\ constructed
    /\ \E files \in ListDir(desktop) :
        \E kmeans \in KMeansOutcomes(files) :
            LET scan == scan_desktop(files, kmeans)
            IN  ret' = Returned("scan", 0, scan.categories, scan.raised)
    /\ pre_load' = NoSnapshot
    /\ UNCHANGED <<constructed, config_dir, prefs_file, preferences, desktop,
                   folders, history_file, now, arrived, moved>>

\* the Organize Now button (lines 189-193): scan_desktop, then organize_files
OrganizeNow ==
    /\ constructed
    /\ \E files \in ListDir(desktop) :
        \E kmeans \in KMeansOutcomes(files), fault \in Faults(Len(files)) :
            \E scan \in {scan_desktop(files, kmeans)} :
                \E st \in {organize_files(
                              [desktop |-> desktop, folders |-> folders,
                               history |-> history_file, raised |-> scan.raised,
                               attempts |-> 0, moved |-> 0],
                              scan.categories, now, fault)} :
                    /\ desktop' = st.desktop
                    /\ folders' = st.folders
                    /\ history_file' = st.history
                    /\ moved' = moved + st.moved
                    /\ ret' = Returned("organize", 0, scan.categories, st.raised)
    /\ pre_load' = NoSnapshot
    /\ UNCHANGED <<constructed, config_dir, prefs_file, preferences, now, arrived>>

\* the Recent Files button (lines 195-201), for any window
GetRecentFiles ==
    /\ constructed
    /\ \E days \in 0..MaxDays :
        ret' = Returned("recent", days, get_recent_files(history_file, now, days),
                        NoError)
    /\ pre_load' = NoSnapshot
    /\ UNCHANGED <<constructed, config_dir, prefs_file, preferences, desktop,
                   folders, history_file, now, arrived, moved>>

\* the View Dashboard button (lines 203-226)
CreateDashboard ==
    /\ constructed
    /\ ret' = Returned("dashboard", 0, create_dashboard(history_file), NoError)
    /\ pre_load' = NoSnapshot
    /\ UNCHANGED <<constructed, config_dir, prefs_file, preferences, desktop,
                   folders, history_file, now, arrived, moved>>

Next ==
    \/ QuickShelfInit
    \/ LoadPreferences
    \/ SavePreferences
    \/ Arrive
    \/ Tick
    \/ OrganizeNow
    \/ GetRecentFiles
    \/ CreateDashboard

Spec == Init /\ [][Next]_vars

-----------------------------------------------------------------------------
(* scan_desktop as a function of the directory: every listing of at most   *)
(* ClusterThreshold files over ScanNames, and every larger one over Names. *)

ScanInit ==
    /\ constructed = TRUE
    /\ config_dir = TRUE
    /\ prefs_file = MissingBlob
    /\ preferences = EmptyPrefs
    /\ pre_load = NoSnapshot
    /\ desktop \in {d \in SUBSET ScanNames : Cardinality(d) <= ClusterThreshold}
                   \cup SUBSET Names
    /\ folders = <<>>
    /\ history_file = NoHistory
    /\ now = 0
    /\ ret = Idle
    /\ arrived = Cardinality(desktop)
    /\ moved = 0

\* scan_desktop is applied once to the directory drawn
ScanNext == ret = Idle /\ ScanDesktop

ScanSpec == ScanInit /\ [][ScanNext]_vars

-----------------------------------------------------------------------------
(* The preference store from every blob the process may find at start.     *)

PrefsInit ==
    /\ constructed = FALSE
    /\ prefs_file \in Blobs
    /\ config_dir = (prefs_file # MissingBlob)
    /\ preferences = EmptyPrefs
    /\ pre_load = NoSnapshot
    /\ desktop = {}
    /\ folders = <<>>
    /\ history_file = NoHistory
    /\ now = 0
    /\ ret = Idle
    /\ arrived = 0
    /\ moved = 0

PrefsNext ==
    \/ QuickShelfInit
    \/ LoadPreferences
    \/ SavePreferences
    \/ SettingsSave

PrefsSpec == PrefsInit /\ [][PrefsNext]_vars

-----------------------------------------------------------------------------
(* The properties.                                                         *)

\* the (file, category) pairs of a categories dict, in iteration order
RECURSIVE Plan(_)
Plan(categories) ==
    IF categories = <<>> THEN <<>>
    ELSE [i \in 1..Len(Head(categories).files) |->
            [file |-> Head(categories).files[i], cat |-> Head(categories).cat]]
         \o Plan(Tail(categories))

\* the records of the log: its lines after the header
Records(history) ==
    IF history.exists THEN Tail(history.lines) ELSE <<>>

\* the files stored anywhere: in the watched directory or in a category folder
RECURSIVE StoredInFolders(_, _)
StoredInFolders(fs, cats) ==
    IF cats = {} THEN 0
    ELSE LET c == CHOOSE x \in cats : TRUE
         IN  Cardinality(fs[c]) + StoredInFolders(fs, cats \ {c})

TotalStored == Cardinality(desktop) + StoredInFolders(folders, DOMAIN folders)

\* C1: the mapping scan_desktop returns partitions the scanned files: every
\* scanned name is in exactly one category list, exactly once, no list holds
\* a name that was not scanned, and no category occurs twice.
C1_ScanPartitions ==
    (ret.op = "scan" /\ ret.raised = NoError) =>
        LET plan == Plan(ret.value)
        IN  /\ \A f \in desktop :
                Cardinality({i \in 1..Len(plan) : plan[i].file = f}) = 1
            /\ \A i \in 1..Len(plan) : plan[i].file \in desktop
            /\ \A i, j \in 1..Len(ret.value) :
                ret.value[i].cat = ret.value[j].cat => i = j

\* a clustered scan that put two files in one category and used two categories
C1_Witness ==
    /\ ret.op = "scan"
    /\ ret.raised = NoError
    /\ Cardinality(desktop) > ClusterThreshold
    /\ Len(ret.value) >= 2
    /\ \E i \in 1..Len(ret.value) : Len(ret.value[i].files) >= 2

\* C2: the number of "moved" records in the log equals the number of files
\* ever moved, and every record names a file stored in the category it names.
C2_RecordsMatchMoves ==
    /\ Cardinality({i \in 1..Len(Records(history_file)) :
                        Records(history_file)[i][4] = "moved"}) = moved
    /\ \A i \in 1..Len(Records(history_file)) :
        LET r == Records(history_file)[i]
        IN  /\ r[3] \in DOMAIN folders
            /\ \E f \in folders[r[3]] : NameText[f] = r[2]

\* C3: an organize pass in which a move fails raises the failure, has moved
\* exactly the files planned before the failing one, has logged exactly those
\* moves, in plan order, and has left the failing file and every later file
\* of the plan where it was.
C3_MoveFailureHalts ==
    [][(ret'.op = "organize" /\ ret'.raised.kind = "MoveFailed") =>
        \E plan \in {Plan(ret'.value)} :
            \E k \in 1..Len(plan) :
                /\ plan[k].file = ret'.raised.file
                /\ plan[k].cat = ret'.raised.category
                /\ desktop' = desktop \ {plan[i].file : i \in 1..(k - 1)}
                /\ \A i \in 1..(k - 1) : plan[i].file \in folders'[plan[i].cat]
                /\ \A i \in k..Len(plan) :
                    /\ plan[i].file \in desktop'
                    /\ \A c \in DOMAIN folders' :
                        plan[i].file \in folders'[c] =>
                            (c \in DOMAIN folders /\ plan[i].file \in folders[c])
                /\ Records(history_file') =
                    Records(history_file)
                    \o [i \in 1..(k - 1) |->
                            <<isoformat(now), NameText[plan[i].file], plan[i].cat,
                              "moved">>]
                /\ moved' = moved + (k - 1)
       ]_vars

\* a pass that failed after its first move and before its last, over two
\* categories
C3_Witness ==
    /\ ret.op = "organize"
    /\ ret.raised.kind = "MoveFailed"
    /\ Len(ret.value) >= 2
    /\ \E k \in 2..(Len(Plan(ret.value)) - 1) :
        /\ Plan(ret.value)[k].file = ret.raised.file
        /\ Plan(ret.value)[k - 1].file \notin desktop

\* C4: scan_desktop and organize_files on a watched directory without
\* regular files create no folder, move no file and append no record.
C4_EmptyOrganizeChangesNothing ==
    [][(desktop = {} /\ ret'.op = "organize") =>
        /\ ret'.value = <<>>
        /\ ret'.raised = NoError
        /\ UNCHANGED <<desktop, folders, history_file, moved>>
       ]_vars

\* a pass over an empty directory, after an earlier pass moved and logged files
C4_Witness ==
    /\ ret.op = "organize"
    /\ ret.value = <<>>
    /\ desktop = {}
    /\ Len(Records(history_file)) >= 1
    /\ DOMAIN folders # {}

\* C5 as claimed: get_recent_files(days) returns the records with a timestamp
\* in the closed interval [now - days, now], in storage order.
C5_ClosedWindow ==
    ret.op = "recent" =>
        ret.value = SelectSeq(read_csv(history_file),
                        LAMBDA r : /\ to_datetime(r.timestamp) >= now - ret.arg
                                   /\ to_datetime(r.timestamp) <= now)

\* C5 as amended: get_recent_files(days) returns, in storage order, the
\* records with a timestamp in the half-open interval (now - days, now]: a
\* record stamped exactly now - days is left out.
C5_HalfOpenWindow ==
    ret.op = "recent" =>
        LET records == Records(history_file)
            inside(i) == /\ to_datetime(records[i][1]) > now - ret.arg
                         /\ to_datetime(records[i][1]) <= now
            kept == {i \in 1..Len(records) : inside(i)}
        IN  /\ Len(ret.value) = Cardinality(kept)
            /\ \A n \in 1..Len(ret.value) :
                \E i \in kept :
                    /\ Cardinality({j \in kept : j <= i}) = n
                    /\ ret.value[n].timestamp = records[i][1]
                    /\ ret.value[n].filename = records[i][2]
                    /\ ret.value[n].category = records[i][3]
                    /\ ret.value[n].action = records[i][4]

\* a query whose log holds a record stamped exactly now - days and a later one
C5_Witness ==
    /\ ret.op = "recent"
    /\ history_file.exists
    /\ \E i \in 1..Len(Records(history_file)) :
        to_datetime(Records(history_file)[i][1]) = now - ret.arg
    /\ Len(ret.value) >= 1

\* C6: the log is append-only: once created it starts with the one header
\* line, every step keeps the stored lines as a prefix, only an organize pass
\* adds lines, and it adds one record per completed log_action.
C6_AppendOnly ==
    [][/\ Len(history_file'.lines) >= Len(history_file.lines)
       /\ SubSeq(history_file'.lines, 1, Len(history_file.lines)) = history_file.lines
       /\ history_file.exists => history_file'.exists
       /\ history_file'.exists =>
            /\ history_file'.lines[1] = HistoryHeader
            /\ \A i \in 2..Len(history_file'.lines) :
                /\ history_file'.lines[i] # HistoryHeader
                /\ history_file'.lines[i][4] = "moved"
       /\ ~history_file'.exists => history_file'.lines = <<>>
       /\ ret'.op # "organize" => history_file' = history_file
       /\ ret'.op = "organize" =>
            Len(Records(history_file')) - Len(Records(history_file))
                = (moved' - moved) - (IF ret'.raised.kind = "LogFailed" THEN 1 ELSE 0)
      ]_vars

\* a log that two passes at different instants appended to
C6_Witness ==
    /\ history_file.exists
    /\ Len(history_file.lines) >= 3
    /\ history_file.lines[2][1] # history_file.lines[Len(history_file.lines)][1]

\* C7: in extension mode every file is in the first category of the table
\* whose set holds its lowercased extension, in Others when none does or the
\* file has no extension.  C7_Extension is the lowercased extension of each
\* name, written out.
C7_Extension ==
    [f \in ScanNames |->
        CASE f = invoice_pdf -> ".pdf"
          [] f = notes_txt   -> ".txt"
          [] f = photo_png   -> ".png"
          [] f = song_mp3    -> ".mp3"
          [] f = PIC_JPG     -> ".jpg"
          [] f = a_tar_gz    -> ".gz"
          [] f = data_xyz    -> ".xyz"
          [] OTHER           -> ""]

C7_ExtensionTable ==
    (ret.op = "scan" /\ Cardinality(desktop) <= ClusterThreshold) =>
        /\ ret.raised = NoError
        /\ \A i \in 1..Len(Plan(ret.value)) :
            LET f == Plan(ret.value)[i].file
                cat == Plan(ret.value)[i].cat
                table == default_categories
            IN  \/ /\ cat = "Others"
                   /\ \A k \in 1..Len(table) : C7_Extension[f] \notin table[k].exts
                \/ \E k \in 1..Len(table) :
                    /\ cat = table[k].cat
                    /\ C7_Extension[f] \in table[k].exts
                    /\ \A j \in 1..(k - 1) : C7_Extension[f] \notin table[j].exts
        /\ \A i \in 1..Len(Plan(ret.value)) :
            LET f == Plan(ret.value)[i].file
                cat == Plan(ret.value)[i].cat
            IN  /\ f \in {invoice_pdf, notes_txt} => cat = "Documents"
                /\ f = photo_png => cat = "Images"
                /\ f = song_mp3 => cat = "Music"
                /\ f \in {Others_file, dot_zip} => cat = "Others"

\* an extension-mode scan of three files, one with an upper-case extension
\* and one without extension
C7_Witness ==
    /\ ret.op = "scan"
    /\ desktop = {invoice_pdf, PIC_JPG, Others_file}
    /\ Len(ret.value) = 3

\* C8: scan_desktop does not surface a failure of the clustering step: every
\* scan of more than 3 files returns a categorization of the same files.
C8_ClusterFailureFallsBack ==
    (ret.op = "scan" /\ Cardinality(desktop) > ClusterThreshold) =>
        /\ ret.raised = NoError
        /\ \A i \in 1..Len(Plan(ret.value)) : Plan(ret.value)[i].file \in desktop
        /\ Len(Plan(ret.value)) = Cardinality(desktop)

\* C9 as claimed: after save_preferences called right after load_preferences,
\* the blob and the in-memory preferences are what they were before the load.
C9_SaveAfterLoadChangesNothing ==
    (ret.op = "save" /\ pre_load.taken) =>
        /\ prefs_file = pre_load.file
        /\ preferences = pre_load.prefs

\* C9 as amended: after save_preferences called right after load_preferences,
\* a blob that held valid contents holds the same contents (and is the same
\* blob when save_preferences wrote it), and the in-memory preferences are
\* those contents; a malformed blob has been replaced by the empty mapping;
\* a missing blob has been created from the unchanged in-memory preferences.
C9_SaveAfterLoad ==
    (ret.op = "save" /\ pre_load.taken) =>
        /\ prefs_file.kind = "json"
        /\ prefs_file.value = preferences
        /\ pre_load.file.kind = "json" =>
            /\ preferences = pre_load.file.value
            /\ pre_load.file.canonical => prefs_file = pre_load.file
        /\ pre_load.file.kind = "malformed" => preferences = EmptyPrefs
        /\ pre_load.file.kind = "missing" => preferences = pre_load.prefs

\* a save right after the load of a stored, non-empty preferences blob
C9_Witness ==
    /\ ret.op = "save"
    /\ pre_load.taken
    /\ pre_load.file.kind = "json"
    /\ pre_load.file.canonical
    /\ pre_load.file.value # EmptyPrefs
    /\ pre_load.prefs # pre_load.file.value

\* C10: no file is ever destroyed: every file that arrived is still stored,
\* in the watched directory or in a category folder.
C10_NoFileDestroyed == TotalStored = arrived

=============================================================================
